---- MODULE Spec2Model ----
(***************************************************************************)
(* A model of oof-client: the OofClient registry (src/src/OofClient.js),   *)
(* the Node connection (src/src/Node.js) and the Player session            *)
(* (src/src/Player.js, the second, destroy-enabled class).                 *)
(*                                                                         *)
(* One action is one run-to-completion JavaScript handler.  An `await` is  *)
(* a suspension point: the code before it and the code after it are        *)
(* separate actions, and frames or calls may be handled in between.        *)
(*                                                                         *)
(* JavaScript values: a session reference is a session id (a positive      *)
(* number), Undefined (a missing property) or Null.  A region string is    *)
(* the sequence of its "-"-separated pieces, and <<>> stands for a region  *)
(* that is absent or empty (falsy).                                        *)
(***************************************************************************)
EXTENDS Integers, Sequences, FiniteSets, TLC

\* ------------------------------------------------------------- bounds
\* Sessions (Player objects) ever constructed in one behaviour.
MaxSessions == 2
\* Futures of connect/play/stop/leave pending at once, over all sessions.
MaxPending == 2

\* ------------------------------------------------------------- inputs
Guilds == {"g1", "g2"}
Infos == {"a", "b"}
\* The node pools the registry is set up with: each node's region tag.
NodePools == {<<>>, <<"us">>, <<"eu">>, <<"us", "us">>, <<"us", "eu">>, <<"eu", "us">>}
\* Guild regions handed to join(): absent, "us-east", "vip-us-east", "eu-west", "brazil".
TargetRegions == {<<>>, <<"us", "east">>, <<"vip", "us", "east">>, <<"eu", "west">>, <<"brazil">>}
\* Load snapshots a "stats" frame may carry (cores >= 1, load >= 0).
StatsValues == {[cores |-> 1, load |-> 0], [cores |-> 2, load |-> 1], [cores |-> 1, load |-> 1]}
SessionIds == 1..MaxSessions

\* ------------------------------------------------------------- values
\* A property that is missing (JavaScript undefined), as a reference.
Undefined == 0
\* JavaScript null, as a reference.
Null == -1
IsSession(ref) == ref > 0

\* The region-affinity table.
REGION_MAP == [tag \in {"us"} |-> {"us", "brazil"}]

VARIABLES
    nodeRegion,   \* OofClient.nodes: the pool, as the sequence of the nodes' region tags
    wsState,      \* per node: the state of its socket (Node.ws)
    stats,        \* per node: Node.stats, the load snapshot
    nodeGuilds,   \* per node: Node.guilds, guild id -> session reference
    guilds,       \* OofClient.guilds, guild id -> session reference
    sessions,     \* the Player objects, by session id
    joins,        \* per session id: the join() call that constructed it
    ran,          \* the handler that ran last
    err,          \* how it ended: "none", or the error it threw
    sent,         \* the frames it handed to a socket
    resolved      \* the one-shot listeners its emit ran: whose, on which op, how many

vars == <<nodeRegion, wsState, stats, nodeGuilds, guilds, sessions, joins, ran, err, sent, resolved>>

\* The program's own state: everything but the record of the last handler.
core == <<nodeRegion, wsState, stats, nodeGuilds, guilds, sessions, joins>>

Nodes == 1..Len(nodeRegion)

\* ------------------------------------------------------------- Player
\* A session id no Player has been constructed for yet.
NoPlayer ==
    [created |-> FALSE, guild |-> "undefined", node |-> Undefined, ready |-> "undefined",
     nowPlaying |-> "undefined", destroyed |-> "undefined",
     onConnected |-> 0, onPlaying |-> 0, onEnd |-> 0, onLeave |-> 0,
     onRegistry |-> FALSE, onDisconnect |-> 0]

\* new Player(channel, node): the fields the constructor sets; no listeners yet.
NewPlayer(g, n) ==
    [NoPlayer EXCEPT !.created = TRUE, !.guild = g, !.node = n, !.ready = "false",
                     !.nowPlaying = "null", !.destroyed = "false"]

\* destroy() with its two statements swapped: destroyed = true is deleted again.
destroyedSetFirst(p) ==
    [NoPlayer EXCEPT !.created = TRUE]

\* Player.destroy(): every own property is deleted, the listener table of the
\* EventEmitter (the own property _events) included, then destroyed = true.
destroy(p) ==
    [NoPlayer EXCEPT !.created = TRUE, !.destroyed = "true"]

\* The futures of connect(), play(), stop() and leave() still pending on p.
Pending(p) == p.onConnected + p.onPlaying + p.onEnd + p.onLeave

RECURSIVE SumPending(_)
SumPending(ids) ==
    IF ids = {} THEN 0
    ELSE LET s == CHOOSE x \in ids : TRUE IN Pending(sessions[s]) + SumPending(ids \ {s})

\* The futures pending over all sessions.
TotalPending == SumPending(SessionIds)

\* No listener ran.
NoneResolved == [session |-> Undefined, op |-> "-", futures |-> 0, hook |-> FALSE]

\* A frame handed to Node.send by a session.
Frame(n, op, g) == [node |-> n, op |-> op, guildId |-> g, channelId |-> "c"]

\* ------------------------------------------------------------- NodeSelector
\* simplifyRegion: strip a leading "vip-", then take the piece before the first "-".
simplifyRegion(region) ==
    LET stripped == IF Len(region) >= 2 /\ region[1] = "vip" THEN Tail(region) ELSE region
    IN  stripped[1]

\* Node has no property named connected: nothing in Node.js ever assigns it.
NodeConnected(n) == Undefined

\* The comparator of the sort: the sign of 100*(a.load/a.cores) - 100*(b.load/b.cores)
\* (cores > 0, so the sign is that of the cross product).
Compare(a, b) == (stats[a].load * stats[b].cores) - (stats[b].load * stats[a].cores)

RECURSIVE Insert(_, _)
Insert(sorted, x) ==
    IF sorted = <<>> THEN <<x>>
    ELSE IF Compare(Head(sorted), x) <= 0 THEN <<Head(sorted)>> \o Insert(Tail(sorted), x)
    ELSE <<x>> \o sorted

RECURSIVE StableSort(_)
StableSort(s) ==
    IF s = <<>> THEN <<>>
    ELSE Insert(StableSort(SubSeq(s, 1, Len(s) - 1)), s[Len(s)])

\* Array.prototype.sort: undefined elements go last and are never compared; the
\* rest is sorted stably by the comparator.
SortNodes(s) ==
    StableSort(SelectSeq(s, LAMBDA x : x # Undefined)) \o SelectSeq(s, LAMBDA x : x = Undefined)

\* The nodes whose REGION_MAP entry includes the simplified region, in pool order.
RegionalNodes(region) ==
    SelectSeq([i \in Nodes |-> i],
              LAMBDA n : simplifyRegion(region) \in REGION_MAP[nodeRegion[n]])

\* OofClient._findOptimalNode(region): [err, node].  The filter reads
\* REGION_MAP[node.region].includes for every node of the pool, which throws a
\* TypeError at a node whose region tag has no entry in REGION_MAP.
FindOptimalNode(region) ==
    LET mapped == [i \in Nodes |-> NodeConnected(i)]
        throws == region # <<>> /\ \E n \in Nodes : nodeRegion[n] \notin DOMAIN REGION_MAP
        regional == IF region # <<>> THEN RegionalNodes(region) ELSE <<>>
        nodes == IF Len(regional) > 0 THEN regional ELSE mapped
        sorted == SortNodes(nodes)
    IN  IF throws THEN [err |-> "TypeError", node |-> Undefined]
        ELSE [err |-> "none", node |-> IF Len(sorted) > 0 THEN sorted[1] ELSE Undefined]

\* ------------------------------------------------------------- join() calls
\* The join() call that constructed a session: where it stands, the node and
\* guild id its closures captured, and the session it returned.
NoJoin == [state |-> "none", node |-> Undefined, guild |-> "undefined", ret |-> Undefined]

\* The sessions a join() has returned to the application.
Handed(s) == \E k \in SessionIds : joins[k].state = "returned" /\ joins[k].ret = s

\* ------------------------------------------------------------- Init
\* The registry with its pool in place: each Node as its constructor leaves it
\* (socket opening, stats {cores: 1, load: 0}, no guilds), the registry with no
\* guilds.  The pool is OofClient.nodes, whichever way the application filled it.
Init ==
    /\ nodeRegion \in NodePools
    /\ wsState = [n \in Nodes |-> "Connecting"]
    /\ stats = [n \in Nodes |-> [cores |-> 1, load |-> 0]]
    /\ nodeGuilds = [n \in Nodes |-> [g \in Guilds |-> Undefined]]
    /\ guilds = [g \in Guilds |-> Undefined]
    /\ sessions = [s \in SessionIds |-> NoPlayer]
    /\ joins = [s \in SessionIds |-> NoJoin]
    /\ ran = "constructor"
    /\ err = "none"
    /\ sent = <<>>
    /\ resolved = NoneResolved

\* ------------------------------------------------------------- the socket
\* The socket of node n opens.
WsOpen(n) ==
    /\ wsState[n] = "Connecting"
    /\ wsState' = [wsState EXCEPT ![n] = "Connected"]
    /\ ran' = "socket" /\ err' = "none" /\ sent' = <<>> /\ resolved' = NoneResolved
    /\ UNCHANGED <<nodeRegion, stats, nodeGuilds, guilds, sessions, joins>>

\* The socket of node n closes; nothing in the code reopens it.
WsClose(n) ==
    /\ wsState[n] # "Disconnected"
    /\ wsState' = [wsState EXCEPT ![n] = "Disconnected"]
    /\ ran' = "socket" /\ err' = "none" /\ sent' = <<>> /\ resolved' = NoneResolved
    /\ UNCHANGED <<nodeRegion, stats, nodeGuilds, guilds, sessions, joins>>

\* ------------------------------------------------------------- OofClient.join
\* The session id the next new Player(...) gets.
FreshId == CHOOSE k \in SessionIds : ~sessions[k].created /\ \A j \in 1..(k - 1) : sessions[j].created

\* Node.createPlayer(channel) on node n, up to its await: the new Player is put
\* in the node's map, the "disconnect" hook is attached, connect() sends "join"
\* and adds its "connected" listener.
createPlayer(n, g) ==
    LET k == FreshId
    IN  /\ \E j \in SessionIds : ~sessions[j].created
        /\ nodeGuilds' = [nodeGuilds EXCEPT ![n][g] = k]
        /\ sessions' = [sessions EXCEPT ![k] =
               [NewPlayer(g, n) EXCEPT !.onDisconnect = 1, !.onConnected = 1]]
        /\ joins' = [joins EXCEPT ![k] =
               [state |-> "awaiting", node |-> n, guild |-> g, ret |-> Undefined]]
        /\ err' = "none"
        /\ sent' = <<Frame(n, "join", g)>>

\* join(channel), up to its await: _findOptimalNode, then node.createPlayer.
\* A thrown TypeError rejects the promise join returned.
join(g, region) ==
    LET sel == FindOptimalNode(region)
    IN  /\ ran' = "join"
        /\ resolved' = NoneResolved
        /\ IF sel.err # "none" \/ sel.node = Undefined
           THEN /\ err' = "TypeError"
                /\ sent' = <<>>
                /\ UNCHANGED core
           ELSE /\ createPlayer(sel.node, g)
                /\ UNCHANGED <<nodeRegion, wsState, stats, guilds>>

\* join(channel) after its await: createPlayer returns what the node's map holds
\* for the guild now, join stores it in the registry, attaches the one-shot
\* "disconnected" hook to it and returns it.  null.once(...) throws a TypeError.
joinResume(k) ==
    LET n == joins[k].node
        g == joins[k].guild
        p == nodeGuilds[n][g]
    IN  /\ joins[k].state = "runnable"
        /\ ran' = "joinResume"
        /\ resolved' = NoneResolved
        /\ guilds' = [guilds EXCEPT ![g] = p]
        /\ IF IsSession(p)
           THEN /\ sessions' = [sessions EXCEPT ![p].onRegistry = TRUE]
                /\ joins' = [joins EXCEPT ![k].state = "returned", ![k].ret = p]
                /\ err' = "none"
           ELSE /\ sessions' = sessions
                /\ joins' = [joins EXCEPT ![k].state = "failed"]
                /\ err' = "TypeError"
        /\ sent' = <<>>
        /\ UNCHANGED <<nodeRegion, wsState, stats, nodeGuilds>>

\* ------------------------------------------------------------- Player.onMessage
\* Player.onMessage(message) on session record p: the fields it sets and the
\* one-shot listeners its emit runs (each resolves the future that added it).
PlayerOnMessage(p, op, info) ==
    CASE op = "connected" -> [p EXCEPT !.ready = "true", !.onConnected = 0]
      [] op = "disconnected" -> [p EXCEPT !.ready = "false", !.onLeave = 0, !.onRegistry = FALSE]
      [] op = "trackInfo" -> [p EXCEPT !.nowPlaying = info, !.onPlaying = 0]
      [] op = "trackEnd" -> [p EXCEPT !.nowPlaying = "null", !.onEnd = 0]
      [] OTHER -> p

\* Emitted with the session destroyed before the frame is routed to it: the
\* listener table is gone and the emit runs nothing.
EmittedAfterDestroy(s, p, op) ==
    IF op \in {"connected", "disconnected", "trackInfo", "trackEnd"}
    THEN [session |-> s, op |-> op, futures |-> 0, hook |-> FALSE]
    ELSE NoneResolved

\* The one-shot listeners the emit of session s (record p) ran on op: the futures
\* of the matching command, and on "disconnected" the hook join attached.
Emitted(s, p, op) ==
    CASE op = "connected" -> [session |-> s, op |-> op, futures |-> p.onConnected, hook |-> FALSE]
      [] op = "disconnected" -> [session |-> s, op |-> op, futures |-> p.onLeave, hook |-> p.onRegistry]
      [] op = "trackInfo" -> [session |-> s, op |-> op, futures |-> p.onPlaying, hook |-> FALSE]
      [] op = "trackEnd" -> [session |-> s, op |-> op, futures |-> p.onEnd, hook |-> FALSE]
      [] OTHER -> NoneResolved

\* The registry after session record p has handled op: the hook join attached runs
\* on "disconnected" and leaves null under the guild id.
RegistryAfter(p, op) ==
    IF op = "disconnected" /\ p.onRegistry THEN [guilds EXCEPT ![p.guild] = Null] ELSE guilds

\* The join() calls after session s has handled op: the createPlayer awaiting the
\* connect() of s may go on.
JoinsAfter(s, op) ==
    IF op = "connected" /\ joins[s].state = "awaiting"
    THEN [joins EXCEPT ![s].state = "runnable"] ELSE joins

\* ------------------------------------------------------------- Node.onMessage
SessionOps == {"connected", "disconnected", "trackInfo", "trackEnd"}
DefaultStats == [cores |-> 1, load |-> 0]

\* A frame whose d carries both a guild id and a channel id.
SessionFrame(op, g, info) ==
    [shape |-> "json", op |-> op, guildId |-> g, channelId |-> "c", info |-> info,
     d |-> DefaultStats]

\* A frame whose d carries neither id.
ControlFrame(shape, op, d) ==
    [shape |-> shape, op |-> op, guildId |-> "undefined", channelId |-> "undefined",
     info |-> "-", d |-> d]

\* The frames about sessions a node may deliver: the four events with both ids, one
\* with a guild id and no channel id.
SessionMessages ==
    {SessionFrame(op, g, "-") : op \in SessionOps \ {"trackInfo"}, g \in Guilds}
    \cup {SessionFrame("trackInfo", g, i) : g \in Guilds, i \in Infos}
    \cup {[SessionFrame("trackEnd", g, "-") EXCEPT !.channelId = "undefined"] : g \in Guilds}

\* The other frames: "sendWS", an op the client does not know, text JSON.parse
\* rejects (shape "garbage") and JSON without a d member (shape "bare").
ControlMessages ==
    {ControlFrame("json", op, DefaultStats) : op \in {"sendWS", "other"}}
    \cup {ControlFrame(sh, "-", DefaultStats) : sh \in {"garbage", "bare"}}

\* The "stats" frames.
StatsMessages == {ControlFrame("json", "stats", v) : v \in StatsValues}

\* "stats" frames whose d carries a guild id as well, and no channel id.
GuildStatsMessages ==
    {[ControlFrame("json", "stats", v) EXCEPT !.guildId = g] : v \in StatsValues, g \in Guilds}

\* The frames of the handshake.
HandshakeMessages ==
    {SessionFrame(op, g, "-") : op \in {"connected", "disconnected"}, g \in Guilds}

\* The payload of a sendWS frame, handed to the application's gateway socket.
GatewayFrame == [node |-> Undefined, op |-> "gateway", guildId |-> "-", channelId |-> "-"]

\* Node.onMessage(data) on node n, whose socket delivers frames while it is open.
onMessage(n, m) ==
    /\ wsState[n] = "Connected"
    /\ ran' = "onMessage"
    /\ IF m.shape = "garbage"
       THEN err' = "SyntaxError" /\ sent' = <<>> /\ resolved' = NoneResolved /\ UNCHANGED core
       ELSE IF m.shape = "bare"
       THEN err' = "TypeError" /\ sent' = <<>> /\ resolved' = NoneResolved /\ UNCHANGED core
       ELSE IF m.guildId # "undefined" /\ m.channelId # "undefined"
       THEN LET s == nodeGuilds[n][m.guildId]
            IN  IF ~IsSession(s)
                THEN err' = "TypeError" /\ sent' = <<>> /\ resolved' = NoneResolved /\ UNCHANGED core
                ELSE LET handled == PlayerOnMessage(sessions[s], m.op, m.info)
                     IN  /\ resolved' = Emitted(s, sessions[s], m.op)
                         /\ guilds' = RegistryAfter(sessions[s], m.op)
                         /\ joins' = JoinsAfter(s, m.op)
                         /\ IF m.op = "disconnected"
                            THEN /\ sessions' = [sessions EXCEPT ![s] = destroy(handled)]
                                 /\ nodeGuilds' = [nodeGuilds EXCEPT ![n][m.guildId] = Null]
                            ELSE /\ sessions' = [sessions EXCEPT ![s] = handled]
                                 /\ nodeGuilds' = nodeGuilds
                         /\ err' = "none" /\ sent' = <<>>
                         /\ UNCHANGED <<nodeRegion, wsState, stats>>
       ELSE /\ stats' = IF m.op = "stats" THEN [stats EXCEPT ![n] = m.d] ELSE stats
            /\ sent' = IF m.op = "sendWS" THEN <<GatewayFrame>> ELSE <<>>
            /\ err' = "none"
            /\ resolved' = NoneResolved
            /\ UNCHANGED <<nodeRegion, wsState, nodeGuilds, guilds, sessions, joins>>

\* ------------------------------------------------------------- Player commands
FutureOps == {"connect", "play", "stop", "leave"}
PlainOps == {"seek", "volume", "pause"}
\* The op of the frame each command sends.
FrameOp(op) == IF op = "connect" THEN "join" ELSE op

\* Listen with pause() written after stop(): it waits for "end" as well.
ListenOnPause(p, op) ==
    CASE op = "connect" -> [p EXCEPT !.onConnected = @ + 1]
      [] op = "play" -> [p EXCEPT !.onPlaying = @ + 1]
      [] op \in {"stop", "pause"} -> [p EXCEPT !.onEnd = @ + 1]
      [] op = "leave" -> [p EXCEPT !.onLeave = @ + 1]
      [] OTHER -> p

\* The listener a future-returning command adds with once(...).
Listen(p, op) ==
    CASE op = "connect" -> [p EXCEPT !.onConnected = @ + 1]
      [] op = "play" -> [p EXCEPT !.onPlaying = @ + 1]
      [] op = "stop" -> [p EXCEPT !.onEnd = @ + 1]
      [] op = "leave" -> [p EXCEPT !.onLeave = @ + 1]
      [] OTHER -> p

\* command without the read of this.guild: the frame is built from what is left.
commandWithoutGuild(s, op) ==
    LET p == sessions[s]
    IN  /\ Handed(s)
        /\ ran' = "command"
        /\ resolved' = NoneResolved
        /\ op \in FutureOps => TotalPending < MaxPending
        /\ sessions' = [sessions EXCEPT ![s] = Listen(p, op)]
        /\ err' = "none"
        /\ sent' = <<Frame(p.node, FrameOp(op), p.guild)>>
        /\ UNCHANGED <<nodeRegion, wsState, stats, nodeGuilds, guilds, joins>>

\* A command called on session s, which a join() returned earlier.  Each reads
\* this.guild.id (this.channel.guild) first: on a destroyed session channel is
\* gone and that read throws a TypeError before anything is sent.
command(s, op) ==
    LET p == sessions[s]
    IN  /\ Handed(s)
        /\ ran' = "command"
        /\ resolved' = NoneResolved
        /\ IF p.guild = "undefined"
           THEN /\ err' = "TypeError"
                /\ sent' = <<>>
                /\ sessions' = sessions
           ELSE /\ op \in FutureOps => TotalPending < MaxPending
                /\ sessions' = [sessions EXCEPT ![s] = Listen(p, op)]
                /\ err' = "none"
                /\ sent' = <<Frame(p.node, FrameOp(op), p.guild)>>
        /\ UNCHANGED <<nodeRegion, wsState, stats, nodeGuilds, guilds, joins>>

\* destroy() called by the application on session s, which a join() returned
\* earlier.  Deleting the properties of an object that has none left throws nothing.
Destroy(s) ==
    /\ Handed(s)
    /\ ran' = IF sessions[s].destroyed = "true" THEN "destroy again" ELSE "destroy"
    /\ sessions' = [sessions EXCEPT ![s] = destroy(sessions[s])]
    /\ err' = "none" /\ sent' = <<>> /\ resolved' = NoneResolved
    /\ UNCHANGED <<nodeRegion, wsState, stats, nodeGuilds, guilds, joins>>

\* ------------------------------------------------------------- voice updates
\* The two events of the application's client every Node listens to, as the op of
\* the frame Player.serverUpdate / Player.stateUpdate sends.
VoiceOps == {"voiceServerUpdate", "voiceStateUpdate"}

\* The listeners of nodes n, n+1, ... run in turn on an update for guild g, as the
\* client's emit runs them: [err, sent].  Node.onServerUpdate and
\* Node.onVoiceStateUpdate call a method of this.guilds[data.guild_id], which throws
\* a TypeError when the map holds no session there; the throw leaves the emit and
\* the listeners of the later nodes do not run.
RECURSIVE Forward(_, _, _)
Forward(op, g, n) ==
    IF n > Len(nodeRegion) THEN [err |-> "none", sent |-> <<>>]
    ELSE IF ~IsSession(nodeGuilds[n][g]) THEN [err |-> "TypeError", sent |-> <<>>]
    ELSE LET p == sessions[nodeGuilds[n][g]]
             rest == Forward(op, g, n + 1)
         IN  IF p.guild = "undefined" THEN [err |-> "TypeError", sent |-> <<>>]
             ELSE [err |-> rest.err, sent |-> <<Frame(p.node, op, p.guild)>> \o rest.sent]

\* The application's client emits a voice-server or voice-state update for guild g.
voiceUpdate(op, g) ==
    /\ ran' = "voiceUpdate"
    /\ err' = Forward(op, g, 1).err
    /\ sent' = Forward(op, g, 1).sent
    /\ resolved' = NoneResolved
    /\ UNCHANGED core

\* ------------------------------------------------------------- specification
\* The sessions' protocol: the sockets open and stay open, no "stats" frame comes.
Next ==
    \/ \E n \in Nodes : WsOpen(n)
    \/ \E g \in Guilds, region \in TargetRegions : join(g, region)
    \/ \E k \in SessionIds : joinResume(k)
    \/ \E n \in Nodes, m \in SessionMessages \cup ControlMessages : onMessage(n, m)
    \/ \E s \in SessionIds, op \in FutureOps \cup PlainOps : command(s, op)

Spec == Init /\ [][Next]_vars

\* The pool and join() alone: the sockets open and close, no commands are called.
JoinNext ==
    \/ \E n \in Nodes : WsOpen(n)
    \/ \E n \in Nodes : WsClose(n)
    \/ \E g \in Guilds, region \in TargetRegions : join(g, region)
    \/ \E k \in SessionIds : joinResume(k)
    \/ \E n \in Nodes, m \in HandshakeMessages \cup StatsMessages : onMessage(n, m)

JoinSpec == Init /\ [][JoinNext]_vars

\* The registry with a pool of at most one node.
OneNodeInit == Init /\ Len(nodeRegion) <= 1

\* The sessions' protocol on such a pool, with destroy() called by the application
\* as well.
TeardownNext ==
    \/ \E n \in Nodes : WsOpen(n)
    \/ \E g \in Guilds, region \in TargetRegions : join(g, region)
    \/ \E k \in SessionIds : joinResume(k)
    \/ \E n \in Nodes, m \in SessionMessages : onMessage(n, m)
    \/ \E s \in SessionIds, op \in FutureOps \cup PlainOps : command(s, op)
    \/ \E s \in SessionIds : Destroy(s)

TeardownSpec == OneNodeInit /\ [][TeardownNext]_vars

\* The pool, join() and the voice updates of the application's client.
VoiceNext ==
    \/ \E n \in Nodes : WsOpen(n)
    \/ \E n \in Nodes : WsClose(n)
    \/ \E g \in Guilds, region \in TargetRegions : join(g, region)
    \/ \E k \in SessionIds : joinResume(k)
    \/ \E n \in Nodes, m \in HandshakeMessages \cup StatsMessages : onMessage(n, m)
    \/ \E op \in VoiceOps, g \in Guilds : voiceUpdate(op, g)

VoiceSpec == Init /\ [][VoiceNext]_vars

\* The sessions' protocol on a pool of at most one node, with every frame that
\* carries a guild id.
IsolationNext ==
    \/ \E n \in Nodes : WsOpen(n)
    \/ \E g \in Guilds, region \in TargetRegions : join(g, region)
    \/ \E k \in SessionIds : joinResume(k)
    \/ \E n \in Nodes, m \in SessionMessages \cup GuildStatsMessages : onMessage(n, m)
    \/ \E s \in SessionIds, op \in FutureOps \cup PlainOps : command(s, op)

IsolationSpec == OneNodeInit /\ [][IsolationNext]_vars

\* The sessions' protocol on a pool of at most one node, with the fairness the
\* event loop gives: the continuation of a join() whose connect() has resolved
\* runs.  Frames come when the node sends them and calls when the application
\* makes them; the code sets no timer.
FairSpec ==
    /\ OneNodeInit
    /\ [][Next]_vars
    /\ \A k \in SessionIds : WF_vars(joinResume(k))

\* ------------------------------------------------------------- what the claims speak of
\* The nodes whose socket is open.
ConnectedNodes == {n \in Nodes : wsState[n] = "Connected"}

\* A session that was constructed and not destroyed.
Live(s) == sessions[s].created /\ sessions[s].destroyed # "true"

\* The session references the registry's map and the nodes' maps hold.
Referenced == {guilds[g] : g \in Guilds} \cup {nodeGuilds[n][g] : n \in Nodes, g \in Guilds}

\* The nodes whose map holds a session for guild g.
Holders(g) == {n \in Nodes : IsSession(nodeGuilds[n][g])}

\* C1: a guild id has a session in the registry's map iff exactly one node's map
\* holds a session for it, and that is the same session.
C1_RegistryMatchesNodes ==
    \A g \in Guilds :
        /\ IsSession(guilds[g]) <=> Cardinality(Holders(g)) = 1
        /\ IsSession(guilds[g]) => \A n \in Holders(g) : nodeGuilds[n][g] = guilds[g]

\* C2: a "disconnected" frame for a guild the node holds a session for leaves that
\* session not ready (destroy() deletes the ready field) and destroyed, and no
\* session under the guild id in the registry's map or in the node's map.
C2_DisconnectedClearsBothMaps ==
    [][\A n \in Nodes, g \in Guilds :
          (onMessage(n, SessionFrame("disconnected", g, "-")) /\ IsSession(nodeGuilds[n][g]))
          => LET s == nodeGuilds[n][g]
             IN  /\ sessions'[s].ready # "true"
                 /\ sessions'[s].destroyed = "true"
                 /\ ~IsSession(guilds'[g])
                 /\ ~IsSession(nodeGuilds'[n][g])]_vars

\* C3: the registry's map and the nodes' maps never hold two different live
\* sessions of one guild.
C3_OneLiveSessionPerGuild ==
    \A s1 \in SessionIds, s2 \in SessionIds :
        (s1 \in Referenced /\ s2 \in Referenced /\ Live(s1) /\ Live(s2)
            /\ sessions[s1].guild = sessions[s2].guild) => s1 = s2

\* ------------------------------------------------------------- node selection, as specified
\* Node a is less loaded than node b: a.load/a.cores < b.load/b.cores.
LessLoaded(a, b) == stats[a].load * stats[b].cores < stats[b].load * stats[a].cores

\* The Connected nodes whose region-affinity set contains the simplified region.
RegionalSubset(region) ==
    IF region = <<>> THEN {}
    ELSE {n \in ConnectedNodes : /\ nodeRegion[n] \in DOMAIN REGION_MAP
                                 /\ simplifyRegion(region) \in REGION_MAP[nodeRegion[n]]}

\* The candidate pool: the regional subset if it is not empty, else all Connected nodes.
CandidatePool(region) ==
    IF RegionalSubset(region) # {} THEN RegionalSubset(region) ELSE ConnectedNodes

\* The least loaded node of the candidate pool, the earliest-enumerated among equals.
LeastLoaded(region) ==
    CHOOSE n \in CandidatePool(region) :
        \A m \in CandidatePool(region) : ~LessLoaded(m, n) /\ (m < n => LessLoaded(n, m))

\* C4: join() with a Connected node sends one "join" frame and stays pending; it
\* resumes only after the new session has handled "connected", and then returns
\* that session, which is ready and is what the registry holds for the guild.
C4_JoinReturnsConnectedSession ==
    [][/\ \A g \in Guilds, region \in TargetRegions :
              (join(g, region) /\ ConnectedNodes # {})
              => /\ err' = "none"
                 /\ Len(sent') = 1 /\ sent'[1].op = "join" /\ sent'[1].guildId = g
                 /\ \E k \in SessionIds : joins[k].state = "none" /\ joins'[k].state = "awaiting"
       /\ \A k \in SessionIds :
              joinResume(k)
              => /\ joins'[k].state = "returned"
                 /\ joins'[k].ret = k
                 /\ sessions'[k].ready = "true"
                 /\ guilds'[joins[k].guild] = k]_vars

\* C5: with no Connected node in the pool, join() fails with NoAvailableNode,
\* sends nothing, constructs no session and leaves every guild map as it was.
C5_NoConnectedNodeFailsCleanly ==
    [][\A g \in Guilds, region \in TargetRegions :
          (join(g, region) /\ ConnectedNodes = {})
          => /\ err' = "NoAvailableNode"
             /\ sent' = <<>>
             /\ UNCHANGED <<sessions, guilds, nodeGuilds>>]_vars

\* C6: with a Connected node in the pool, selection returns the least loaded node
\* of the candidate pool (the regional subset, or all Connected nodes when that is
\* empty), the earliest-enumerated among equally loaded ones.
C6_SelectsLeastLoaded ==
    \A region \in TargetRegions :
        ConnectedNodes # {}
        => FindOptimalNode(region) = [err |-> "none", node |-> LeastLoaded(region)]

\* C7: when a region is given and some Connected node serves it, selection returns
\* a node of that regional subset, whatever region tags the pool carries.
C7_SelectsFromRegionalSubset ==
    \A region \in TargetRegions :
        RegionalSubset(region) # {}
        => /\ FindOptimalNode(region).err = "none"
           /\ FindOptimalNode(region).node \in RegionalSubset(region)

\* C8: the node join() selects is Connected, and join() puts a session only in
\* the map of a Connected node.
C8_OnlyConnectedNodesSelected ==
    [][\A g \in Guilds, region \in TargetRegions :
          join(g, region)
          => /\ FindOptimalNode(region).node # Undefined
                => wsState[FindOptimalNode(region).node] = "Connected"
             /\ \A n \in Nodes :
                    nodeGuilds'[n][g] # nodeGuilds[n][g] => wsState[n] = "Connected"]_vars

\* A frame the node has nothing to route to or cannot read: both ids and no session
\* under the guild id in the node's map, or a malformed frame.
Unroutable(n, m) ==
    \/ m.shape \in {"garbage", "bare"}
    \/ /\ m.guildId # "undefined" /\ m.channelId # "undefined"
       /\ ~IsSession(nodeGuilds[n][m.guildId])

\* C9: handling an unroutable frame raises no error and changes no session, no
\* guild map and no load snapshot.
C9_UnroutableFrameIgnored ==
    [][\A n \in Nodes, m \in SessionMessages \cup ControlMessages :
          (onMessage(n, m) /\ Unroutable(n, m))
          => (err' = "none" /\ UNCHANGED core)]_vars

\* C10: play() on a live session sends exactly one "play" frame and adds a pending
\* future; a pending play future of a session that stays live goes only when a
\* "trackInfo" frame of its guild is handled; and when the session's node handles
\* such a frame, the session's nowPlaying is the frame's info and none of its play
\* futures is pending any more.
C10_PlayResolvesOnTrackInfo ==
    [][/\ \A s \in SessionIds :
              (command(s, "play") /\ Live(s))
              => /\ sent' = <<Frame(sessions[s].node, "play", sessions[s].guild)>>
                 /\ sessions'[s].onPlaying = sessions[s].onPlaying + 1
       /\ \A s \in SessionIds :
              (Live(s) /\ sessions'[s].destroyed # "true"
                  /\ sessions'[s].onPlaying < sessions[s].onPlaying)
              => \E n \in Nodes, i \in Infos :
                     onMessage(n, SessionFrame("trackInfo", sessions[s].guild, i))
       /\ \A s \in SessionIds, n \in Nodes, g \in Guilds, i \in Infos :
              (/\ onMessage(n, SessionFrame("trackInfo", g, i))
               /\ IsSession(nodeGuilds[n][g])
               /\ Live(s) /\ sessions[s].guild = g /\ sessions[s].node = n
               /\ sessions[s].onPlaying > 0)
              => /\ sessions'[s].nowPlaying = i
                 /\ sessions'[s].onPlaying = 0]_vars

\* C11: when the node of a live session handles a "trackEnd" frame of its guild, the
\* session's nowPlaying becomes null and none of its stop futures stays pending, each
\* having been resolved by that frame; and a pending stop future of a session that
\* stays live goes only when a "trackEnd" frame of its guild is handled.
C11_TrackEndResolvesStop ==
    [][/\ \A s \in SessionIds, n \in Nodes, g \in Guilds :
              (/\ onMessage(n, SessionFrame("trackEnd", g, "-"))
               /\ IsSession(nodeGuilds[n][g])
               /\ Live(s) /\ sessions[s].guild = g /\ sessions[s].node = n)
              => /\ sessions'[s].nowPlaying = "null"
                 /\ sessions'[s].onEnd = 0
                 /\ sessions[s].onEnd > 0
                       => resolved' = [session |-> s, op |-> "trackEnd",
                                       futures |-> sessions[s].onEnd, hook |-> FALSE]
       /\ \A s \in SessionIds :
              (Live(s) /\ sessions'[s].destroyed # "true"
                  /\ sessions'[s].onEnd < sessions[s].onEnd)
              => \E n \in Nodes : onMessage(n, SessionFrame("trackEnd", sessions[s].guild, "-"))]_vars

\* C12: leave() on a live session sends exactly one "leave" frame and adds a pending
\* future; a pending leave future goes only when a "disconnected" frame of the
\* session's guild is handled; and when the session's node handles such a frame,
\* the session's leave futures are resolved, it is not ready and it is destroyed.
C12_LeaveResolvesOnDisconnected ==
    [][/\ \A s \in SessionIds :
              (command(s, "leave") /\ Live(s))
              => /\ sent' = <<Frame(sessions[s].node, "leave", sessions[s].guild)>>
                 /\ sessions'[s].onLeave = sessions[s].onLeave + 1
       /\ \A s \in SessionIds :
              (Live(s) /\ sessions'[s].onLeave < sessions[s].onLeave)
              => \E n \in Nodes : onMessage(n, SessionFrame("disconnected", sessions[s].guild, "-"))
       /\ \A s \in SessionIds, n \in Nodes, g \in Guilds :
              (/\ onMessage(n, SessionFrame("disconnected", g, "-"))
               /\ IsSession(nodeGuilds[n][g])
               /\ Live(s) /\ sessions[s].guild = g /\ sessions[s].node = n
               /\ sessions[s].onLeave > 0)
              => /\ resolved'.session = s /\ resolved'.op = "disconnected"
                 /\ resolved'.futures = sessions[s].onLeave
                 /\ sessions'[s].ready # "true"
                 /\ sessions'[s].destroyed = "true"]_vars

\* A session object with every field cleared and destroyed = true.
Cleared(p) ==
    /\ p.guild = "undefined" /\ p.node = Undefined
    /\ p.ready = "undefined" /\ p.nowPlaying = "undefined"
    /\ Pending(p) = 0 /\ ~p.onRegistry /\ p.onDisconnect = 0
    /\ p.destroyed = "true"

\* C13: destroy() on a session in any state raises no error and leaves every field
\* cleared and destroyed = true; called on a session a destroy() has left so, it
\* changes nothing and raises no error.
C13_DestroyIdempotent ==
    [][\A s \in SessionIds :
          Destroy(s)
          => /\ err' = "none"
             /\ Cleared(sessions'[s])
             /\ Cleared(sessions[s]) => sessions' = sessions]_vars

\* C13 witness: destroy() has just been called on a session that was destroyed
\* before, and the session is cleared.
C13_Witness ==
    /\ ran = "destroy again" /\ err = "none"
    /\ \E s \in SessionIds : Handed(s) /\ Cleared(sessions[s])

\* C14: seek(), volume() and pause() on a live session send exactly one frame, with
\* the command's op and the session's guild id and channel id, add no pending
\* future and leave every session and every guild map as they were.
C14_PlainCommandsFireAndForget ==
    [][\A s \in SessionIds, op \in PlainOps :
          (command(s, op) /\ Live(s))
          => /\ err' = "none"
             /\ sent' = <<[node |-> sessions[s].node, op |-> op,
                           guildId |-> sessions[s].guild, channelId |-> "c"]>>
             /\ Pending(sessions'[s]) = Pending(sessions[s])
             /\ UNCHANGED <<sessions, guilds, nodeGuilds>>]_vars

\* C14 witness: a pause frame has just been sent for a session that is ready and
\* playing a track.
C14_Witness ==
    /\ ran = "command" /\ err = "none"
    /\ Len(sent) = 1 /\ sent[1].op = "pause"
    /\ \E s \in SessionIds :
           /\ Handed(s) /\ sessions[s].guild = sent[1].guildId
           /\ sessions[s].ready = "true" /\ sessions[s].nowPlaying \in Infos

\* C15: when a node handles a "disconnected" frame of a guild it holds a session
\* for, every listener the session had for it runs (each pending leave() is
\* resolved, the registry's hook fires and leaves no session under the guild id)
\* and the session is destroyed by the end of the handler: the emit comes first.
C15_NotificationBeforeDestroy ==
    [][\A n \in Nodes, g \in Guilds :
          (onMessage(n, SessionFrame("disconnected", g, "-")) /\ IsSession(nodeGuilds[n][g]))
          => LET s == nodeGuilds[n][g]
             IN  /\ resolved' = [session |-> s, op |-> "disconnected",
                                 futures |-> sessions[s].onLeave,
                                 hook |-> sessions[s].onRegistry]
                 /\ sessions[s].onRegistry => guilds'[g] = Null
                 /\ sessions'[s].destroyed = "true"]_vars

\* C15 witness: a "disconnected" frame has just resolved a pending leave() and run
\* the registry's hook of a session that is now destroyed.
C15_Witness ==
    /\ ran = "onMessage" /\ resolved.op = "disconnected"
    /\ resolved.futures > 0 /\ resolved.hook
    /\ IsSession(resolved.session)
    /\ sessions[resolved.session].destroyed = "true"

\* C16: a session is never destroyed while a future of connect(), play() or stop()
\* is pending on it, and its pending leave() futures are resolved by the handler
\* that destroys it.
C16_NoPendingFutureAtDestroy ==
    [][\A s \in SessionIds :
          (Live(s) /\ sessions'[s].destroyed = "true")
          => /\ sessions[s].onConnected = 0
             /\ sessions[s].onPlaying = 0
             /\ sessions[s].onEnd = 0
             /\ sessions[s].onLeave > 0
                   => (resolved'.session = s /\ resolved'.futures = sessions[s].onLeave)]_vars

\* C18: a destroyed session never changes again, and no command called on it hands
\* a frame to a socket.
C18_DisconnectedIsTerminal ==
    [][\A s \in SessionIds :
          sessions[s].destroyed = "true"
          => /\ sessions'[s] = sessions[s]
             /\ \A op \in FutureOps \cup PlainOps : command(s, op) => sent' = <<>>]_vars

\* C18 witness: a command has just been called on a session a join() returned and a
\* "disconnected" frame destroyed: it threw and sent nothing.
C18_Witness ==
    /\ ran = "command" /\ err = "TypeError" /\ sent = <<>>
    /\ \E s \in SessionIds : Handed(s) /\ Cleared(sessions[s])

\* C20: one "trackInfo" frame resolves at most one play future.
C20_OneTrackInfoResolvesOnePlay ==
    [][(ran' = "onMessage" /\ resolved'.op = "trackInfo") => resolved'.futures <= 1]_vars

\* C17: every future of connect(), play(), stop() or leave() pending on a session is
\* settled in the end, by its frame or by a timeout.
C17_EveryFutureSettles ==
    \A s \in SessionIds : (Pending(sessions[s]) > 0) ~> (Pending(sessions[s]) = 0)

\* C19: in a pool of several nodes, a voice update for a guild whose session at most
\* one node holds raises no error, changes no state and sends exactly one frame,
\* of the update's op, on the node that holds the session (none if no node does).
C19_VoiceUpdateOnHolderOnly ==
    [][\A op \in VoiceOps, g \in Guilds :
          (voiceUpdate(op, g) /\ Len(nodeRegion) >= 2 /\ Cardinality(Holders(g)) <= 1)
          => /\ err' = "none"
             /\ UNCHANGED core
             /\ \A n \in Holders(g) : sent' = <<Frame(n, op, g)>>
             /\ Holders(g) = {} => sent' = <<>>]_vars

\* C21: handling a frame that carries guild id g changes no node's load snapshot,
\* no entry of another guild in the registry's map or in a node's map, and no
\* session of another guild (its fields and its pending futures).
C21_GuildIsolation ==
    [][\A n \in Nodes, m \in SessionMessages \cup GuildStatsMessages :
          (onMessage(n, m) /\ m.guildId # "undefined")
          => /\ stats' = stats
             /\ \A h \in Guilds \ {m.guildId} :
                    /\ guilds'[h] = guilds[h]
                    /\ \A k \in Nodes : nodeGuilds'[k][h] = nodeGuilds[k][h]
             /\ \A s \in SessionIds :
                    (sessions[s].created /\ sessions[s].guild # m.guildId)
                    => sessions'[s] = sessions[s]]_vars

====
